---- MODULE Spec2Model ----
(***************************************************************************)
(* Portfolio valuation of src/position/tradier.py: one run of              *)
(* get_portfolio_data() as a state machine (load, resolve the quote        *)
(* keys, fetch the quotes, value each position, totals, chart, sort and    *)
(* return), with the pure helpers (to_occ, strptime/strftime, the Position *)
(* methods) as operators.                                                  *)
(*                                                                         *)
(* Numbers are exact rationals [n, d] (d > 0, lowest terms); the record    *)
(* with d = 0 stands for Python's None.  Floating-point rounding error is  *)
(* not modelled.  Strings are sequences of one-character strings; None in  *)
(* a string position is NoneStr.  Arc lengths are in units of pi.          *)
(***************************************************************************)
EXTENDS Integers, Sequences, FiniteSets, TLC

VARIABLES pc, data, cash, pos_objs, symbols, quotes, idx, requests,
          totals, chart_segments, result, error

vars == <<pc, data, cash, pos_objs, symbols, quotes, idx, requests,
          totals, chart_segments, result, error>>

\* Largest number of positions in the loaded snapshot.
MaxPositions == 2

----------------------------------------------------------------------------
(* Rational arithmetic (Python float arithmetic, exact).                   *)

Abs(x) == IF x < 0 THEN -x ELSE x

RECURSIVE GCD(_, _)
GCD(a, b) == IF b = 0 THEN a ELSE GCD(b, a % b)

Rat(n, d) ==
    LET s == IF d < 0 THEN -1 ELSE 1
        g == GCD(Abs(n), Abs(d))
    IN  [n |-> (s * n) \div g, d |-> (s * d) \div g]

R(i) == [n |-> i, d |-> 1]

NoneNum == [n |-> 0, d |-> 0]
NoneStr == <<"None">>

IsNum(x) == x.d > 0

\* Sums over the least common denominator and products with the common
\* factors cancelled first, which keeps the intermediate integers small.
RAdd(a, b) ==
    LET g == GCD(a.d, b.d)
    IN  Rat(a.n * (b.d \div g) + b.n * (a.d \div g), (a.d \div g) * b.d)
RNeg(a) == [n |-> -a.n, d |-> a.d]
RSub(a, b) == RAdd(a, RNeg(b))
RMul(a, b) ==
    LET g1 == GCD(Abs(a.n), b.d)
        g2 == GCD(Abs(b.n), a.d)
    IN  Rat((a.n \div g1) * (b.n \div g2), (a.d \div g2) * (b.d \div g1))
RDiv(a, b) == RMul(a, Rat(b.d, b.n))
RLt(a, b)  == a.n * b.d < b.n * a.d
RLe(a, b)  == a.n * b.d <= b.n * a.d

\* Python's `x or 0`: None and a zero number both give 0.
Or0(x) == IF x.d = 0 \/ x.n = 0 THEN R(0) ELSE x

\* int(x): truncation toward zero.
IntTrunc(x) == IF x.n >= 0 THEN x.n \div x.d ELSE -((-x.n) \div x.d)

\* round(x): nearest integer, ties to the even one.
RoundHalfEven(x) ==
    LET f == x.n \div x.d                 \* floor
        r2 == 2 * (x.n - f * x.d)         \* twice the fractional part, times d
    IN  IF r2 < x.d THEN f
        ELSE IF r2 > x.d THEN f + 1
        ELSE IF f % 2 = 0 THEN f ELSE f + 1

\* round(x, 2)
Round2(x) == Rat(RoundHalfEven(RMul(x, R(100))), 100)

RECURSIVE RSum(_)
RSum(s) == IF s = <<>> THEN R(0) ELSE RAdd(RSum(SubSeq(s, 1, Len(s) - 1)), s[Len(s)])

----------------------------------------------------------------------------
(* Strings: datetime.strptime(expiry, "%Y%m%d"), f"{dt:%y%m%d}" and        *)
(* f"{strike_int:08d}" as Python computes them.                            *)

Digits == <<"0", "1", "2", "3", "4", "5", "6", "7", "8", "9">>

IsDigit(c) == \E i \in 1..10 : Digits[i] = c

DigitVal(c) == (CHOOSE i \in 1..10 : Digits[i] = c) - 1

\* Code point order of the characters that occur, for str comparison.
CharCode(c) ==
    CASE c = " " -> 32
      [] c = "-" -> 45
      [] IsDigit(c) -> 48 + DigitVal(c)
      [] c = "A" -> 65 [] c = "C" -> 67 [] c = "L" -> 76 [] c = "P" -> 80
      [] c = "S" -> 83 [] c = "Y" -> 89
      [] OTHER -> 127

\* s < t for Python str (lexicographic by code point; a proper prefix is less).
RECURSIVE StrLt(_, _)
StrLt(s, t) ==
    IF t = <<>> THEN FALSE
    ELSE IF s = <<>> THEN TRUE
    ELSE IF CharCode(s[1]) # CharCode(t[1]) THEN CharCode(s[1]) < CharCode(t[1])
    ELSE StrLt(Tail(s), Tail(t))

\* The decimal digits of n >= 0, at least `width` of them (zero padded).
RECURSIVE ZeroPad(_, _)
ZeroPad(n, width) ==
    IF n < 10 /\ width <= 1 THEN <<Digits[n + 1]>>
    ELSE ZeroPad(n \div 10, width - 1) \o <<Digits[(n % 10) + 1]>>

\* format(n, "08d"): sign, then the digits padded so that the whole is 8 wide.
Format08d(n) == IF n < 0 THEN <<"-">> \o ZeroPad(-n, 7) ELSE ZeroPad(n, 8)

IsLeap(y) == (y % 4 = 0 /\ y % 100 # 0) \/ y % 400 = 0

DaysInMonth(y, m) ==
    IF m = 2 THEN (IF IsLeap(y) THEN 29 ELSE 28)
    ELSE IF m \in {4, 6, 9, 11} THEN 30 ELSE 31

\* Length of the text the regex of %d, 3[01]|[12]\d|0[1-9]|[1-9]| [1-9],
\* matches at position p of s (first alternative that matches), 0 if none.
DayLen(s, p) ==
    LET has1 == p <= Len(s)
        has2 == p + 1 <= Len(s)
        two  == /\ has2 /\ IsDigit(s[p]) /\ IsDigit(s[p + 1])
                /\ LET v == 10 * DigitVal(s[p]) + DigitVal(s[p + 1])
                   IN  v >= 1 /\ v <= 31
        one  == has1 /\ IsDigit(s[p]) /\ DigitVal(s[p]) >= 1
        sp   == has2 /\ s[p] = " " /\ IsDigit(s[p + 1]) /\ DigitVal(s[p + 1]) >= 1
    IN  IF two THEN 2 ELSE IF one THEN 1 ELSE IF sp THEN 2 ELSE 0

\* Whether the regex of %m, 1[0-2]|0[1-9]|[1-9], matches `len` characters at p.
MonthMatches(s, p, len) ==
    IF len = 2
    THEN /\ p + 1 <= Len(s) /\ IsDigit(s[p]) /\ IsDigit(s[p + 1])
         /\ LET v == 10 * DigitVal(s[p]) + DigitVal(s[p + 1])
            IN  v >= 1 /\ v <= 12
    ELSE p <= Len(s) /\ IsDigit(s[p]) /\ DigitVal(s[p]) >= 1

Number(s, p, len) ==
    IF len = 2
    THEN (IF s[p] = " " THEN 0 ELSE 10 * DigitVal(s[p])) + DigitVal(s[p + 1])
    ELSE DigitVal(s[p])

\* datetime.strptime(s, "%Y%m%d"): the regex \d\d\d\d, %m, %d matched with
\* backtracking from the start of s, the rest of s must be empty, and the
\* date must exist.  [err |-> "" ...] on success.
Strptime(s) ==
    LET bad(e) == [err |-> e, y |-> 0, m |-> 0, d |-> 0]
    IN
    IF s = NoneStr THEN bad("TypeError")
    ELSE IF ~(Len(s) >= 4 /\ \A i \in 1..4 : IsDigit(s[i])) THEN bad("ValueError")
    ELSE
      LET y  == 1000 * DigitVal(s[1]) + 100 * DigitVal(s[2])
                + 10 * DigitVal(s[3]) + DigitVal(s[4])
          ml == IF MonthMatches(s, 5, 2) /\ DayLen(s, 7) > 0 THEN 2
                ELSE IF MonthMatches(s, 5, 1) /\ DayLen(s, 6) > 0 THEN 1
                ELSE 0
          dl == DayLen(s, 5 + ml)
      IN  IF ml = 0 THEN bad("ValueError")
          ELSE IF 4 + ml + dl # Len(s) THEN bad("ValueError")
          ELSE LET m == Number(s, 5, ml)
                   d == Number(s, 5 + ml, dl)
               IN  IF y < 1 \/ d > DaysInMonth(y, m) THEN bad("ValueError")
                   ELSE [err |-> "", y |-> y, m |-> m, d |-> d]

\* f"{dt:%y%m%d}"
StrftimeYmd(dt) == ZeroPad(dt.y % 100, 2) \o ZeroPad(dt.m, 2) \o ZeroPad(dt.d, 2)

\* int(strike * 1000)
StrikeInt(strike) == IntTrunc(RMul(strike, R(1000)))

\* to_occ(symbol, expiry, right, strike): [err, key]
to_occ(symbol, expiry, right, strike) ==
    LET dt == Strptime(expiry)
        cp == IF right = <<"C">> THEN <<"C">> ELSE <<"P">>
    IN  IF dt.err # "" THEN [err |-> dt.err, key |-> <<>>]
        ELSE [err |-> "",
              key |-> symbol \o StrftimeYmd(dt) \o cp \o Format08d(StrikeInt(strike))]

----------------------------------------------------------------------------
(* Inputs: the snapshot of positions.yaml and the quote provider's answer. *)

AAPL == <<"A", "A", "P", "L">>
SPY  == <<"S", "P", "Y">>

Stock(sym, qty, cost) ==
    [symbol |-> sym, secType |-> "STK", position |-> qty, avgCost |-> cost,
     right |-> NoneStr, strike |-> NoneNum, expiry |-> NoneStr]

Option(sym, qty, cost, right, strike, expiry) ==
    [symbol |-> sym, secType |-> "OPT", position |-> qty, avgCost |-> cost,
     right |-> right, strike |-> strike, expiry |-> expiry]

\* The entries data["positions"] is drawn from: long and short stock, options
\* with well-formed expiries, an expiry one digit short, a date that does not
\* exist, a missing expiry and an empty one.
PositionInputs ==
    { Stock(AAPL, R(10), R(100)),
      Stock(SPY, R(-5), R(50)),
      Option(AAPL, R(2), R(250), <<"C">>, R(150),
             <<"2", "0", "2", "5", "0", "1", "1", "7">>),
      Option(AAPL, R(-1), R(120), <<"P">>, Rat(10006, 10000),
             <<"2", "0", "2", "5", "1", "1", "0", "8">>),
      Option(SPY, R(1), R(10), <<"C">>, Rat(5, 2),
             <<"2", "0", "2", "5", "1", "1", "7">>),
      Option(SPY, R(1), R(10), <<"P">>, R(400),
             <<"2", "0", "2", "5", "0", "2", "3", "0">>),
      Option(AAPL, R(1), R(10), <<"C">>, R(150), NoneStr),
      Option(AAPL, R(1), R(10), <<"C">>, R(150), <<>>) }

CashInputs == {R(0), R(555), R(10000)}

NoGreeks == [delta |-> NoneNum, gamma |-> NoneNum, theta |-> NoneNum]

\* {} : what quotes.get(key, {}) gives for a key the map lacks.
EmptyQuote == [bid |-> NoneNum, ask |-> NoneNum, last |-> NoneNum, greeks |-> NoGreeks]

\* The quote records the provider answers with: bid, ask, last and greeks;
\* bid and ask only; last only.
QuoteInputs ==
    { [bid |-> R(110), ask |-> R(112), last |-> R(111),
       greeks |-> [delta |-> Rat(12345, 100000), gamma |-> NoneNum,
                   theta |-> Rat(-1, 20)]],
      [bid |-> R(1), ask |-> R(2), last |-> NoneNum, greeks |-> NoGreeks],
      [bid |-> NoneNum, ask |-> NoneNum, last |-> R(5), greeks |-> NoGreeks] }

RECURSIVE SeqsUpTo(_, _)
SeqsUpTo(S, n) ==
    IF n = 0 THEN {<<>>}
    ELSE LET shorter == SeqsUpTo(S, n - 1)
         IN  shorter \cup {Append(t, x) : t \in shorter, x \in S}

Range(f) == {f[i] : i \in DOMAIN f}

----------------------------------------------------------------------------
(* class Position                                                          *)

\* Position.__init__
Position(p) ==
    [symbol |-> p.symbol, secType |-> p.secType, qty |-> p.position,
     cost |-> p.avgCost, right |-> p.right, strike |-> p.strike,
     expiry |-> p.expiry, price |-> NoneNum, upnl |-> NoneNum,
     delta |-> R(0), gamma |-> R(0), theta |-> R(0)]

is_option(p) == p.secType = "OPT"

\* Position.occ_symbol: [err, key]; key is NoneStr for a non-option.
occ_symbol(p) ==
    IF ~is_option(p) THEN [err |-> "", key |-> NoneStr]
    ELSE to_occ(p.symbol, p.expiry, p.right, p.strike)

\* p.symbol if not p.is_option else p.occ_symbol
LookupKey(p) ==
    IF ~is_option(p) THEN [err |-> "", key |-> p.symbol] ELSE occ_symbol(p)

\* _convert_greek without the contract size.
convert_greek_per_share(p, value) == Round2(RMul(Or0(value), p.qty))

\* Position._convert_greek
convert_greek(p, value) == Round2(RMul(RMul(Or0(value), R(100)), p.qty))

\* Multiplier that forgets the contract size.
MultiplierPerShare(p) == R(1)

\* The contract multiplier of line 103.
Multiplier(p) == IF is_option(p) THEN R(100) ELSE R(1)

\* (bid + ask) / 2: None + anything raises TypeError.
base_price(q) == RDiv(RAdd(q.bid, q.ask), R(2))

\* update_market_price that stores an option's cost scaled by the contract
\* size before computing the P&L.
update_market_price_scaling_cost(p, q) ==
    IF ~IsNum(q.bid) \/ ~IsNum(q.ask) THEN [err |-> "TypeError", pos |-> p]
    ELSE
      LET price == RMul(base_price(q), Multiplier(p))
          g     == q.greeks
          cost  == RMul(p.cost, Multiplier(p))
          p1    == [p EXCEPT !.price = price, !.cost = cost]
          p2    == IF is_option(p)
                   THEN [p1 EXCEPT !.delta = convert_greek(p, g.delta),
                                   !.gamma = convert_greek(p, g.gamma),
                                   !.theta = convert_greek(p, g.theta)]
                   ELSE p1
      IN  [err |-> "",
           pos |-> [p2 EXCEPT !.upnl = RMul(RSub(price, cost), p.qty)]]

\* Position.update_market_price: [err, pos]
update_market_price(p, q) ==
    IF ~IsNum(q.bid) \/ ~IsNum(q.ask) THEN [err |-> "TypeError", pos |-> p]
    ELSE
      LET price == RMul(base_price(q), Multiplier(p))
          g     == q.greeks
          p1    == [p EXCEPT !.price = price]
          p2    == IF is_option(p)
                   THEN [p1 EXCEPT !.delta = convert_greek(p, g.delta),
                                   !.gamma = convert_greek(p, g.gamma),
                                   !.theta = convert_greek(p, g.theta)]
                   ELSE p1
      IN  [err |-> "",
           pos |-> [p2 EXCEPT !.upnl = RMul(RSub(price, p.cost), p.qty)]]

\* Position.market_value
market_value(p) == RMul(Or0(p.price), p.qty)

----------------------------------------------------------------------------
(* get_portfolio_data: the pure parts                                      *)

Stocks(ps)  == SelectSeq(ps, LAMBDA p : ~is_option(p))
Options(ps) == SelectSeq(ps, LAMBDA p : is_option(p))

MarketValues(ps) == [i \in 1..Len(ps) |-> market_value(ps[i])]

\* Utilization guarded by net_liquidation > 0 instead of != 0.
UtilizationIfPositive(net, c) == IF net.n > 0 THEN RDiv(RSub(net, c), net) ELSE R(0)

\* (net_liquidation - cash) / net_liquidation if net_liquidation != 0 else 0
Utilization(net, c) == IF net.n # 0 THEN RDiv(RSub(net, c), net) ELSE R(0)

\* ComputeTotals with the option value left out of net_liquidation.
ComputeTotalsNoOptions(c, ps) ==
    LET stock_mv  == RSum(MarketValues(Stocks(ps)))
        option_mv == RSum(MarketValues(Options(ps)))
        net       == RAdd(c, stock_mv)
    IN  [total_stock_mv  |-> stock_mv,
         total_option_mv |-> option_mv,
         total_upnl      |-> RSum([i \in 1..Len(ps) |-> ps[i].upnl]),
         total_theta     |-> RSum([i \in 1..Len(Options(ps)) |-> Options(ps)[i].theta]),
         net_liquidation |-> net,
         utilization     |-> Utilization(net, c)]

\* Lines 146-151.
ComputeTotals(c, ps) ==
    LET stock_mv  == RSum(MarketValues(Stocks(ps)))
        option_mv == RSum(MarketValues(Options(ps)))
        net       == RAdd(RAdd(c, stock_mv), option_mv)
    IN  [total_stock_mv  |-> stock_mv,
         total_option_mv |-> option_mv,
         total_upnl      |-> RSum([i \in 1..Len(ps) |-> ps[i].upnl]),
         total_theta     |-> RSum([i \in 1..Len(Options(ps)) |-> Options(ps)[i].theta]),
         net_liquidation |-> net,
         utilization     |-> Utilization(net, c)]

NoTotals ==
    [total_stock_mv |-> NoneNum, total_option_mv |-> NoneNum, total_upnl |-> NoneNum,
     total_theta |-> NoneNum, net_liquidation |-> NoneNum, utilization |-> NoneNum]

RingRadius == 80

\* math.pi, lengths being measured in units of pi.
Pi == R(1)

\* 2 * math.pi * 80
Circumference == RMul(RMul(R(2), Pi), R(RingRadius))

\* (value / net_liquidation) * 100
Pct(value, net) == RMul(RDiv(value, net), R(100))

\* segments_data, lines 164-168.
SegmentsData(c, t) ==
    << [name |-> "cash", pct |-> Pct(c, t.net_liquidation),
        color |-> "#d4d4d4", value |-> c],
       [name |-> "stock", pct |-> Pct(t.total_stock_mv, t.net_liquidation),
        color |-> "#a3a3a3", value |-> t.total_stock_mv],
       [name |-> "option", pct |-> Pct(t.total_option_mv, t.net_liquidation),
        color |-> "#737373", value |-> t.total_option_mv] >>

\* Segments kept when pct >= 0.
SegmentShownIfNotNegative(seg) == RLe(R(0), seg.pct)

\* if seg["pct"] > 0
SegmentShown(seg) == RLt(R(0), seg.pct)

\* The arc without the division by 100.
ArcOfRawPercent(seg) == RMul(seg.pct, Circumference)

\* (seg["pct"] / 100) * circumference
Arc(seg) == RMul(RDiv(seg.pct, R(100)), Circumference)

\* The offset never advanced.
NextOffsetStuck(offset, arc) == offset

\* offset += arc
NextOffset(offset, arc) == RAdd(offset, arc)

\* The loop of lines 170-181 over segs[i..], with the running offset.
RECURSIVE SegmentLoop(_, _, _)
SegmentLoop(segs, i, offset) ==
    IF i > Len(segs) THEN <<>>
    ELSE IF SegmentShown(segs[i])
    THEN <<[name |-> segs[i].name, pct |-> segs[i].pct, color |-> segs[i].color,
            arc |-> Arc(segs[i]), offset |-> offset, value |-> segs[i].value]>>
         \o SegmentLoop(segs, i + 1, NextOffset(offset, Arc(segs[i])))
    ELSE SegmentLoop(segs, i + 1, offset)

\* The chart drawn whenever net_liquidation != 0.
ChartDrawnIfNonZero(net) == net.n # 0

\* if net_liquidation > 0
ChartDrawn(net) == RLt(R(0), net)

\* Lines 154-181.
BuildChart(c, t) ==
    IF ChartDrawn(t.net_liquidation) THEN SegmentLoop(SegmentsData(c, t), 1, R(0))
    ELSE <<>>

\* p.expiry or ""
ExpiryOrEmpty(p) == IF p.expiry = NoneStr THEN <<>> ELSE p.expiry

\* (p.is_option, p.expiry or "") compared as Python compares tuples.
SortKeyLt(a, b) ==
    IF is_option(a) # is_option(b) THEN ~is_option(a)
    ELSE StrLt(ExpiryOrEmpty(a), ExpiryOrEmpty(b))

\* x put after every element that is not greater than it.
RECURSIVE InsertSorted(_, _)
InsertSorted(s, x) ==
    IF s = <<>> THEN <<x>>
    ELSE IF SortKeyLt(x, s[Len(s)]) THEN Append(InsertSorted(SubSeq(s, 1, Len(s) - 1), x), s[Len(s)])
    ELSE Append(s, x)

\* sorted(pos_objs, key=...): stable.
RECURSIVE Sorted(_)
Sorted(ps) ==
    IF ps = <<>> THEN <<>>
    ELSE InsertSorted(Sorted(SubSeq(ps, 1, Len(ps) - 1)), ps[Len(ps)])

\* pos_dict, lines 189-204.
PosDict(p) ==
    LET base == [symbol |-> p.symbol, secType |-> p.secType, qty |-> p.qty,
                 cost |-> p.cost, price |-> Or0(p.price), upnl |-> Or0(p.upnl),
                 is_option |-> is_option(p), delta |-> p.delta, gamma |-> p.gamma,
                 theta |-> p.theta]
    IN  IF is_option(p)
        THEN base @@ [right |-> p.right, strike |-> p.strike, expiry |-> p.expiry]
        ELSE base

\* The returned dict, lines 207-218.
ReturnValue(c, ps, t, segs) ==
    [cash |-> c,
     net_liquidation |-> t.net_liquidation,
     total_stock_mv |-> t.total_stock_mv,
     total_option_mv |-> t.total_option_mv,
     total_upnl |-> t.total_upnl,
     total_theta |-> t.total_theta,
     utilization |-> t.utilization,
     positions |-> [i \in 1..Len(ps) |-> PosDict(Sorted(ps)[i])],
     chart_segments |-> segs,
     circumference |-> IF RLt(R(0), t.net_liquidation) THEN Circumference ELSE R(0)]

NoResult == [cash |-> NoneNum]

\* quotes.get(key, {})
QuoteGet(qs, key) == IF key \in DOMAIN qs THEN qs[key] ELSE EmptyQuote

\* What the provider may answer to a request for `keys`: a quote for any
\* subset of them (line 53 keys the answer by each record's symbol).
Responses(keys) == UNION {[K -> QuoteInputs] : K \in SUBSET Range(keys)}

----------------------------------------------------------------------------
(* get_portfolio_data as steps                                             *)

Init ==
    /\ pc = "idle"
    /\ data = [cash |-> NoneNum, positions |-> <<>>]
    /\ cash = NoneNum
    /\ pos_objs = <<>>
    /\ symbols = <<>>
    /\ quotes = <<>>
    /\ idx = 1
    /\ requests = <<>>
    /\ totals = NoTotals
    /\ chart_segments = <<>>
    /\ result = NoResult
    /\ error = ""

\* Lines 127-131: yaml.safe_load, cash, the Position objects.
Load ==
    /\ pc = "idle"
    /\ \E c \in CashInputs, ps \in SeqsUpTo(PositionInputs, MaxPositions) :
         /\ data' = [cash |-> c, positions |-> ps]
         /\ cash' = c
         /\ pos_objs' = [i \in 1..Len(ps) |-> Position(ps[i])]
         /\ pc' = IF ps = <<>> THEN "quotes" ELSE "resolve"
    /\ UNCHANGED <<symbols, quotes, idx, requests, totals, chart_segments, result, error>>

\* One element of the list of lines 134-137; to_occ may raise.
ResolveSymbol ==
    /\ pc = "resolve"
    /\ LET k == LookupKey(pos_objs[idx])
       IN  IF k.err # ""
           THEN /\ pc' = "failed"
                /\ error' = k.err
                /\ UNCHANGED <<symbols, idx>>
           ELSE /\ symbols' = Append(symbols, k.key)
                /\ error' = error
                /\ IF idx = Len(pos_objs)
                   THEN pc' = "quotes" /\ idx' = 1
                   ELSE pc' = pc /\ idx' = idx + 1
    /\ UNCHANGED <<data, cash, pos_objs, quotes, requests, totals, chart_segments, result>>

\* get_quotes, lines 43-44: no symbols, no request.
GetQuotesEmpty ==
    /\ pc = "quotes"
    /\ symbols = <<>>
    /\ quotes' = <<>>
    /\ pc' = "totals"
    /\ UNCHANGED <<data, cash, pos_objs, symbols, idx, requests, totals,
                   chart_segments, result, error>>

\* get_quotes, lines 45-53: one request for all symbols, answered.
GetQuotesAnswered ==
    /\ pc = "quotes"
    /\ symbols # <<>>
    /\ requests' = Append(requests, symbols)
    /\ \E resp \in Responses(symbols) : quotes' = resp
    /\ pc' = "value"
    /\ UNCHANGED <<data, cash, pos_objs, symbols, idx, totals, chart_segments,
                   result, error>>

\* get_quotes, line 47: raise_for_status raises.
GetQuotesFailed ==
    /\ pc = "quotes"
    /\ symbols # <<>>
    /\ requests' = Append(requests, symbols)
    /\ pc' = "failed"
    /\ error' = "HTTPError"
    /\ UNCHANGED <<data, cash, pos_objs, symbols, quotes, idx, totals,
                   chart_segments, result>>

\* The loop iteration with a quote request of its own for each position.
ValuePositionFetching ==
    /\ pc = "value"
    /\ LET k == LookupKey(pos_objs[idx])
           u == update_market_price(pos_objs[idx], QuoteGet(quotes, k.key))
       IN  /\ requests' = Append(requests, <<k.key>>)
           /\ IF k.err # "" \/ u.err # ""
              THEN /\ pc' = "failed"
                   /\ error' = IF k.err # "" THEN k.err ELSE u.err
                   /\ UNCHANGED <<pos_objs, idx>>
              ELSE /\ pos_objs' = [pos_objs EXCEPT ![idx] = u.pos]
                   /\ error' = error
                   /\ IF idx = Len(pos_objs)
                      THEN pc' = "totals" /\ idx' = 1
                      ELSE pc' = pc /\ idx' = idx + 1
    /\ UNCHANGED <<data, cash, symbols, quotes, totals, chart_segments, result>>

\* One iteration of the loop of lines 141-143.
ValuePosition ==
    /\ pc = "value"
    /\ LET k == LookupKey(pos_objs[idx])
           u == update_market_price(pos_objs[idx], QuoteGet(quotes, k.key))
       IN  IF k.err # "" \/ u.err # ""
           THEN /\ pc' = "failed"
                /\ error' = IF k.err # "" THEN k.err ELSE u.err
                /\ UNCHANGED <<pos_objs, idx>>
           ELSE /\ pos_objs' = [pos_objs EXCEPT ![idx] = u.pos]
                /\ error' = error
                /\ IF idx = Len(pos_objs)
                   THEN pc' = "totals" /\ idx' = 1
                   ELSE pc' = pc /\ idx' = idx + 1
    /\ UNCHANGED <<data, cash, symbols, quotes, requests, totals, chart_segments, result>>

\* Lines 146-151.
Totals ==
    /\ pc = "totals"
    /\ totals' = ComputeTotals(cash, pos_objs)
    /\ pc' = "chart"
    /\ UNCHANGED <<data, cash, pos_objs, symbols, quotes, idx, requests,
                   chart_segments, result, error>>

\* Lines 153-181.
Chart ==
    /\ pc = "chart"
    /\ chart_segments' = BuildChart(cash, totals)
    /\ pc' = "return"
    /\ UNCHANGED <<data, cash, pos_objs, symbols, quotes, idx, requests, totals,
                   result, error>>

\* Lines 183-218.
Return ==
    /\ pc = "return"
    /\ result' = ReturnValue(cash, pos_objs, totals, chart_segments)
    /\ pc' = "done"
    /\ UNCHANGED <<data, cash, pos_objs, symbols, quotes, idx, requests, totals,
                   chart_segments, error>>

Next ==
    \/ Load
    \/ ResolveSymbol
    \/ GetQuotesEmpty
    \/ GetQuotesAnswered
    \/ GetQuotesFailed
    \/ ValuePosition
    \/ Totals
    \/ Chart
    \/ Return

Spec == Init /\ [][Next]_vars

----------------------------------------------------------------------------
(* Properties                                                              *)

Returned == pc = "done"

\* The positions valued so far.
Valued == IF pc = "value" THEN 1..(idx - 1)
          ELSE IF pc \in {"totals", "chart", "return", "done"} THEN 1..Len(pos_objs)
          ELSE {}

\* The run raised inside the valuation loop, at position idx.
RaisedInValuation == pc = "failed" /\ requests # <<>> /\ error # "HTTPError"

\* The quote map lacks the key of position p.
MissingQuote(p) == LookupKey(p).err = "" /\ LookupKey(p).key \notin DOMAIN quotes

\* C1: the returned net_liquidation is cash plus the sum of price * qty over
\* all returned positions, and cash + total_stock_mv + total_option_mv; with
\* no positions it is cash.
C1_NetLiquidationIsCashPlusMarketValues ==
    Returned =>
      /\ result.net_liquidation =
           RAdd(data.cash,
                RSum([i \in 1..Len(result.positions) |->
                        RMul(result.positions[i].price, result.positions[i].qty)]))
      /\ result.net_liquidation =
           RAdd(RAdd(result.cash, result.total_stock_mv), result.total_option_mv)
      /\ (data.positions = <<>> => result.net_liquidation = data.cash)

\* C1 witness: a run returned with a stock and an option, both worth something.
C1_Witness ==
    /\ Returned
    /\ Len(result.positions) = 2
    /\ result.total_stock_mv.n # 0
    /\ result.total_option_mv.n # 0

\* C2: a position whose key the quote map lacks does not make the run raise;
\* it is valued at price 0 with unrealized P&L -average_cost * quantity.
C2_MissingQuoteValuedAtZero ==
    /\ RaisedInValuation => ~MissingQuote(pos_objs[idx])
    /\ \A i \in Valued :
         MissingQuote(pos_objs[i]) =>
           /\ pos_objs[i].price = R(0)
           /\ pos_objs[i].upnl = RSub(R(0), RMul(pos_objs[i].cost, pos_objs[i].qty))

\* C3: a position valued from a quote with bid and ask has market value
\* mark * m * quantity and unrealized P&L (mark * m - average_cost) * quantity,
\* mark = (bid + ask) / 2, m = 100 for an option and 1 for an equity; quantity
\* 10 at cost 100 with bid 110 and ask 112 gives 111, 1110 and 110.
C3_MarkToMarket ==
    \A i \in Valued :
      LET p    == pos_objs[i]
          q    == QuoteGet(quotes, LookupKey(p).key)
          mark == Rat(q.bid.n * q.ask.d + q.ask.n * q.bid.d, 2 * q.bid.d * q.ask.d)
          m    == IF p.secType = "OPT" THEN 100 ELSE 1
      IN  (IsNum(q.bid) /\ IsNum(q.ask)) =>
            /\ market_value(p) = RMul(RMul(mark, R(m)), data.positions[i].position)
            /\ p.upnl = RMul(RSub(RMul(mark, R(m)), data.positions[i].avgCost),
                             data.positions[i].position)
            /\ (/\ p.secType = "STK" /\ p.qty = R(10) /\ p.cost = R(100)
                /\ q.bid = R(110) /\ q.ask = R(112))
               => /\ p.price = R(111)
                  /\ market_value(p) = R(1110)
                  /\ p.upnl = R(110)

\* C3 witness: an option and the equity of the example have been valued.
C3_Witness ==
    /\ Returned
    /\ \E i \in Valued : is_option(pos_objs[i]) /\ pos_objs[i].price.n # 0
    /\ \E i \in Valued : /\ ~is_option(pos_objs[i])
                         /\ pos_objs[i].price = R(111)
                         /\ pos_objs[i].upnl = R(110)

\* s is a calendar date written YYYYMMDD: eight digits, month 01-12, a day
\* that the month has.
WellFormedYmd(s) ==
    /\ s # NoneStr
    /\ Len(s) = 8
    /\ \A i \in 1..8 : IsDigit(s[i])
    /\ LET y == 1000 * DigitVal(s[1]) + 100 * DigitVal(s[2])
                + 10 * DigitVal(s[3]) + DigitVal(s[4])
           m == 10 * DigitVal(s[5]) + DigitVal(s[6])
           d == 10 * DigitVal(s[7]) + DigitVal(s[8])
       IN  y >= 1 /\ m \in 1..12 /\ d \in 1..DaysInMonth(y, m)

\* C4: the key of an option with a well-formed expiry is symbol, YYMMDD, right
\* and the 8-digit zero-padded round(strike * 1000) (AAPL 20250117 C 150.0
\* gives AAPL250117C00150000); the key of an equity is its symbol.
C4_OccKeyUsesRoundedStrike ==
    \A i \in 1..Len(symbols) :
      LET p == data.positions[i]
      IN  IF p.secType = "OPT"
          THEN WellFormedYmd(p.expiry) =>
                 /\ symbols[i] = p.symbol \o SubSeq(p.expiry, 3, 8) \o p.right
                                 \o ZeroPad(RoundHalfEven(RMul(p.strike, R(1000))), 8)
                 /\ (/\ p.symbol = AAPL /\ p.right = <<"C">> /\ p.strike = R(150)
                     /\ p.expiry = <<"2", "0", "2", "5", "0", "1", "1", "7">>)
                    => symbols[i] = <<"A", "A", "P", "L", "2", "5", "0", "1", "1", "7",
                                      "C", "0", "0", "1", "5", "0", "0", "0", "0">>
          ELSE symbols[i] = p.symbol

\* The snapshot holds an option whose expiry is no YYYYMMDD calendar date.
MalformedExpiryLoaded ==
    \E i \in 1..Len(data.positions) :
      data.positions[i].secType = "OPT" /\ ~WellFormedYmd(data.positions[i].expiry)

\* C5: with an option whose expiry is no YYYYMMDD calendar date the run fails
\* while resolving the keys: no quote request is issued, no position is
\* valued and no view is returned.
C5_MalformedExpiryIsFatal ==
    MalformedExpiryLoaded =>
      /\ requests = <<>>
      /\ pc \in {"resolve", "failed"}
      /\ pc = "failed" => error \in {"ValueError", "TypeError"}

\* C6: the returned utilization is (net_liquidation - cash) / net_liquidation
\* when net_liquidation is not 0, and 0 when it is 0.
C6_Utilization ==
    Returned =>
      LET net == result.net_liquidation
      IN  IF net.n = 0 THEN result.utilization = R(0)
          ELSE result.utilization = RDiv(RSub(net, result.cash), net)

\* C6 witness: returned with cash and position values that cancel out.
C6_Witness ==
    /\ Returned
    /\ result.net_liquidation = R(0)
    /\ result.cash.n # 0
    /\ Len(result.positions) > 0

\* C7 as stated: with net_liquidation <= 0 the returned utilization is 0 and
\* the returned chart_segments is empty.
C7_DegenerateGivesZeroUtilization ==
    (Returned /\ RLe(result.net_liquidation, R(0))) =>
      /\ result.utilization = R(0)
      /\ result.chart_segments = <<>>

\* C7 amended: with net_liquidation <= 0 the run does not raise once the
\* totals are known and returns an empty chart_segments; the utilization is 0
\* when net_liquidation is 0 and (net_liquidation - cash) / net_liquidation
\* when it is negative.
C7_DegenerateGivesEmptyChart ==
    /\ (totals # NoTotals /\ RLe(totals.net_liquidation, R(0))) => pc # "failed"
    /\ (Returned /\ RLe(result.net_liquidation, R(0))) =>
         /\ result.chart_segments = <<>>
         /\ result.net_liquidation.n = 0 => result.utilization = R(0)
         /\ result.net_liquidation.n < 0 =>
              result.utilization =
                RDiv(RSub(result.net_liquidation, result.cash), result.net_liquidation)

\* C7 witness: returned with a negative net_liquidation and a utilization
\* that is not 0.
C7_Witness ==
    /\ Returned
    /\ result.net_liquidation.n < 0
    /\ result.utilization.n # 0
    /\ result.chart_segments = <<>>

CategoryValue(name) ==
    CASE name = "cash" -> result.cash
      [] name = "stock" -> result.total_stock_mv
      [] name = "option" -> result.total_option_mv

CategoryPercent(name) ==
    RDiv(RMul(R(100), CategoryValue(name)), result.net_liquidation)

CategoryColor(name) ==
    CASE name = "cash" -> "#d4d4d4"
      [] name = "stock" -> "#a3a3a3"
      [] name = "option" -> "#737373"

\* C8: with net_liquidation > 0 the chart holds exactly the categories among
\* cash, stock, option whose percent 100 * value / net_liquidation is > 0, once
\* each and in that order, each with its own fixed color.
C8_ChartCategories ==
    (Returned /\ RLt(R(0), result.net_liquidation)) =>
      LET segs == result.chart_segments
      IN  /\ [i \in 1..Len(segs) |-> segs[i].name] =
               SelectSeq(<<"cash", "stock", "option">>,
                         LAMBDA c : RLt(R(0), CategoryPercent(c)))
          /\ \A i \in 1..Len(segs) :
               /\ segs[i].pct = CategoryPercent(segs[i].name)
               /\ RLt(R(0), segs[i].pct)
               /\ segs[i].color = CategoryColor(segs[i].name)
               /\ segs[i].value = CategoryValue(segs[i].name)

\* C8 witness: a chart from which a category with a negative value and one
\* with value 0 are left out.
C8_Witness ==
    /\ Returned
    /\ RLt(R(0), result.net_liquidation)
    /\ Len(result.chart_segments) = 1
    /\ result.cash = R(0)
    /\ result.total_option_mv.n < 0

\* C9: the first segment's offset is 0, every later offset is the sum of the
\* arcs before it, each arc is (percent / 100) * circumference, and the arcs
\* sum to circumference * (sum of the percents) / 100.
C9_ChartOffsets ==
    Returned =>
      LET segs == result.chart_segments
          arcs == [i \in 1..Len(segs) |-> segs[i].arc]
          pcts == [i \in 1..Len(segs) |-> segs[i].pct]
      IN  /\ Len(segs) > 0 => segs[1].offset = R(0)
          /\ \A k \in 1..Len(segs) :
               /\ segs[k].offset = RSum(SubSeq(arcs, 1, k - 1))
               /\ segs[k].arc = RMul(RDiv(segs[k].pct, R(100)), result.circumference)
          /\ Len(segs) > 0 =>
               RSum(arcs) = RDiv(RMul(result.circumference, RSum(pcts)), R(100))

\* C9 witness: a returned chart of three segments, the third at an offset
\* that is not 0.
C9_Witness ==
    /\ Returned
    /\ Len(result.chart_segments) = 3
    /\ result.chart_segments[3].offset.n # 0

\* The calendar date an expiry string was parsed as, as a number YYYYMMDD.
DateOf(s) == LET dt == Strptime(s) IN 10000 * dt.y + 100 * dt.m + dt.d

HasDate(d) == d.expiry # NoneStr /\ d.expiry # <<>>

SameSortKey(a, b) ==
    /\ a.is_option = b.is_option
    /\ (IF a.is_option /\ HasDate(a) THEN a.expiry ELSE <<>>)
       = (IF b.is_option /\ HasDate(b) THEN b.expiry ELSE <<>>)

\* C10: the returned positions are a permutation of the snapshot's, stocks
\* before options, options by ascending expiry date with a missing or empty
\* expiry first, and positions with equal sort keys in their input order.
C10_PositionsSortedByExpiryDate ==
    Returned =>
      LET out == result.positions
          inp == [i \in 1..Len(pos_objs) |-> PosDict(pos_objs[i])]
          N   == Len(out)
      IN  /\ N = Len(data.positions)
          /\ \A x \in Range(inp) \cup Range(out) :
               Cardinality({i \in 1..N : out[i] = x})
               = Cardinality({i \in 1..N : inp[i] = x})
          /\ \A i, j \in 1..N :
               i < j =>
                 /\ ~(out[i].is_option /\ ~out[j].is_option)
                 /\ (out[i].is_option /\ out[j].is_option) =>
                      /\ ~(HasDate(out[i]) /\ ~HasDate(out[j]))
                      /\ (HasDate(out[i]) /\ HasDate(out[j])) =>
                           DateOf(out[i].expiry) <= DateOf(out[j].expiry)
                 /\ (SameSortKey(out[i], out[j]) /\ out[i] # out[j]) =>
                      \E a, b \in 1..N : a < b /\ inp[a] = out[i] /\ inp[b] = out[j]

\* The quote map has a record for position p that lacks bid or ask.
QuoteLacksBidOrAsk(p) ==
    /\ LookupKey(p).err = ""
    /\ LookupKey(p).key \in DOMAIN quotes
    /\ LET q == quotes[LookupKey(p).key] IN ~IsNum(q.bid) \/ ~IsNum(q.ask)

\* C11: a position whose quote lacks bid or ask does not make valuation
\* raise; its mark price is the quote's last price, or 0 without one.
C11_FallsBackToLast ==
    /\ RaisedInValuation => ~QuoteLacksBidOrAsk(pos_objs[idx])
    /\ \A i \in Valued :
         QuoteLacksBidOrAsk(pos_objs[i]) =>
           LET q == quotes[LookupKey(pos_objs[i]).key]
               m == IF pos_objs[i].secType = "OPT" THEN R(100) ELSE R(1)
           IN  pos_objs[i].price = RMul(IF IsNum(q.last) THEN q.last ELSE R(0), m)

\* C12: a run issues at most one quote request; it carries the resolved keys
\* of all positions, it precedes every valuation, and valuation, totals and
\* chart issue none.
C12_OneBatchedQuoteRequest ==
    /\ Len(requests) <= 1
    /\ requests # <<>> =>
         requests[1] = [i \in 1..Len(data.positions) |->
                          LookupKey(Position(data.positions[i])).key]
    /\ (\E i \in 1..Len(pos_objs) : IsNum(pos_objs[i].price)) => Len(requests) = 1
    /\ pc \in {"value", "totals", "chart", "return", "done"} =>
         Len(requests) = (IF data.positions = <<>> THEN 0 ELSE 1)

\* C12 witness: a run returned two valued positions after one request for
\* both keys.
C12_Witness ==
    /\ Returned
    /\ Len(pos_objs) = 2
    /\ Len(requests) = 1
    /\ Len(requests[1]) = 2
    /\ requests[1][1] # requests[1][2]

\* The identity fields of a loaded entry, of a Position and of a returned dict.
InputIdentity(p) ==
    <<p.symbol, p.secType, p.position, p.avgCost, p.right, p.strike, p.expiry>>

ObjectIdentity(p) ==
    <<p.symbol, p.secType, p.qty, p.cost, p.right, p.strike, p.expiry>>

OutputIdentity(d) ==
    <<d.symbol, d.secType, d.qty, d.cost,
      IF d.is_option THEN d.right ELSE NoneStr,
      IF d.is_option THEN d.strike ELSE NoneNum,
      IF d.is_option THEN d.expiry ELSE NoneStr>>

\* C13: throughout a run cash and every position's symbol, secType, quantity,
\* average cost, right, strike and expiry stay as loaded, and the returned
\* view holds the same cash and the same positions, as many as were loaded.
C13_ValuationKeepsIdentityFields ==
    /\ pc # "idle" =>
         /\ cash = data.cash
         /\ Len(pos_objs) = Len(data.positions)
         /\ \A i \in 1..Len(pos_objs) :
              ObjectIdentity(pos_objs[i]) = InputIdentity(data.positions[i])
    /\ Returned =>
         LET N   == Len(data.positions)
             inp == [i \in 1..N |-> InputIdentity(data.positions[i])]
             out == [i \in 1..Len(result.positions) |->
                       OutputIdentity(result.positions[i])]
         IN  /\ result.cash = data.cash
             /\ Len(result.positions) = N
             /\ \A x \in Range(inp) \cup Range(out) :
                  Cardinality({i \in 1..N : out[i] = x})
                  = Cardinality({i \in 1..N : inp[i] = x})

\* C13 witness: a run returned an option and a stock with their derived
\* fields set, in another order than they were loaded in.
C13_Witness ==
    /\ Returned
    /\ Len(result.positions) = 2
    /\ data.positions[1].secType = "OPT"
    /\ data.positions[2].secType = "STK"
    /\ \A i \in 1..2 : result.positions[i].price.n # 0 /\ result.positions[i].upnl.n # 0
    /\ result.positions[2].delta.n # 0

\* s is x rounded to 2 decimals: a whole number of hundredths within half a
\* hundredth of x.
IsRoundedTo2(s, x) ==
    /\ RMul(s, R(100)).d = 1
    /\ RLe(RSub(s, x), Rat(1, 200))
    /\ RLe(RSub(x, s), Rat(1, 200))

\* The quote's per-share Greek, 0 when the quote has none.
GreekOrZero(g) == IF IsNum(g) THEN g ELSE R(0)

\* Greek times 100 times quantity.
Exposure(g, qty) == RMul(RMul(GreekOrZero(g), R(100)), qty)

\* C14: after valuation an equity has delta, gamma and theta 0 whatever its
\* quote holds; an option has each Greek of its quote times 100 times quantity
\* rounded to 2 decimals, an absent Greek counting as 0 and never raising;
\* total_theta is the sum of theta over the options.
C14_GreekExposure ==
    /\ \A i \in Valued :
         LET p == pos_objs[i]
             g == QuoteGet(quotes, LookupKey(p).key).greeks
         IN  IF p.secType = "OPT"
             THEN /\ IsRoundedTo2(p.delta, Exposure(g.delta, data.positions[i].position))
                  /\ IsRoundedTo2(p.gamma, Exposure(g.gamma, data.positions[i].position))
                  /\ IsRoundedTo2(p.theta, Exposure(g.theta, data.positions[i].position))
             ELSE p.delta = R(0) /\ p.gamma = R(0) /\ p.theta = R(0)
    /\ RaisedInValuation =>
         MissingQuote(pos_objs[idx]) \/ QuoteLacksBidOrAsk(pos_objs[idx])
    /\ Returned =>
         LET opts == SelectSeq(result.positions, LAMBDA d : d.secType = "OPT")
         IN  result.total_theta = RSum([i \in 1..Len(opts) |-> opts[i].theta])

\* C14 witness: a run returned an option whose delta exposure had to be
\* rounded and whose quote has no gamma, and an equity whose quote carries
\* Greeks.
C14_Witness ==
    /\ Returned
    /\ result.total_theta.n # 0
    /\ \E i \in Valued :
         LET p == pos_objs[i]
             g == QuoteGet(quotes, LookupKey(p).key).greeks
         IN  /\ is_option(p)
             /\ p.delta.n # 0
             /\ p.delta # Exposure(g.delta, p.qty)
             /\ ~IsNum(g.gamma) /\ p.gamma = R(0)
    /\ \E i \in Valued :
         /\ ~is_option(pos_objs[i])
         /\ IsNum(QuoteGet(quotes, LookupKey(pos_objs[i]).key).greeks.delta)

ReturnedPercents ==
    [i \in 1..Len(result.chart_segments) |-> result.chart_segments[i].pct]

\* Last offset plus last arc, 0 for an empty chart.
TotalArc ==
    LET segs == result.chart_segments
    IN  IF segs = <<>> THEN R(0)
        ELSE RAdd(segs[Len(segs)].offset, segs[Len(segs)].arc)

\* cash, total_stock_mv or total_option_mv is negative.
NegativeCategory ==
    \/ result.cash.n < 0
    \/ result.total_stock_mv.n < 0
    \/ result.total_option_mv.n < 0

\* C15 as stated: with net_liquidation > 0 every returned percent is in
\* (0, 100], the returned percents sum to at most 100 and the total arc
\* length is at most the circumference.
C15_ChartWithinRing ==
    (Returned /\ RLt(R(0), result.net_liquidation)) =>
      /\ \A i \in 1..Len(ReturnedPercents) :
           RLt(R(0), ReturnedPercents[i]) /\ RLe(ReturnedPercents[i], R(100))
      /\ RLe(RSum(ReturnedPercents), R(100))
      /\ RLe(TotalArc, RMul(RMul(R(2), Pi), R(80)))

\* C15 amended: with net_liquidation > 0 every returned percent is > 0; when
\* no category is negative each percent is at most 100, the percents sum to
\* 100 and the total arc length is the circumference; when a category is
\* negative the percents sum to more than 100 and the total arc length
\* exceeds the circumference.
C15_ChartWithinRingUnlessShort ==
    (Returned /\ RLt(R(0), result.net_liquidation)) =>
      LET ring == RMul(RMul(R(2), Pi), R(80))
      IN  /\ \A i \in 1..Len(ReturnedPercents) : RLt(R(0), ReturnedPercents[i])
          /\ ~NegativeCategory =>
               /\ \A i \in 1..Len(ReturnedPercents) : RLe(ReturnedPercents[i], R(100))
               /\ RSum(ReturnedPercents) = R(100)
               /\ TotalArc = ring
          /\ NegativeCategory =>
               /\ RLt(R(100), RSum(ReturnedPercents))
               /\ RLt(ring, TotalArc)

\* C15 witness: a chart returned for a portfolio with a short side, whose
\* cash percent is above 100.
C15_Witness ==
    /\ Returned
    /\ RLt(R(0), result.net_liquidation)
    /\ NegativeCategory
    /\ Len(result.chart_segments) = 2
    /\ RLt(R(100), result.chart_segments[1].pct)

====
